---- MODULE Spec2Model ----
(***************************************************************************)
(* Model of book-translator's text conditioning and correction core        *)
(* (src/text_processing/text_processing.py).                               *)
(*                                                                         *)
(* A Python str is a sequence of code points (integers).  Every function   *)
(* of the module is pure; each becomes an operator computed as the code    *)
(* computes it, and the specifications below draw inputs from bounded sets *)
(* and apply the functions.  translate_long_text, add_underscore and       *)
(* replace_text_segments are stepped through their loops because they      *)
(* call out to an external capability or are claimed to act in an order.   *)
(***************************************************************************)
EXTENDS Integers, Sequences, FiniteSets, TLC

VARIABLES
    \* split_text_into_chunks / translate_long_text
    text, chunk_size, pc, chunks, translated_chunks, submitted, result,
    \* preprocess_downloaded_text
    raw, ignore_prefix, clean_pc, lines, line_no, cleaned_lines, cleaned,
    \* add_underscore, called on a text and again on what it returned
    tag_input, is_chinese, tag_pc, call_no, tag_text, tag_lines,
    normalized_lines, first_tagged, second_tagged,
    \* detect_untranslated_chinese, extract_chinese_sentences,
    \* replace_text_segments
    translated_text, original, replacement_map, corr_pc, detection, sentences,
    sorted_keys, key_no, segment_text, corrected

chunkVars == <<text, chunk_size, pc, chunks, translated_chunks, submitted, result>>

cleanVars == <<raw, ignore_prefix, clean_pc, lines, line_no, cleaned_lines, cleaned>>

tagVars == <<tag_input, is_chinese, tag_pc, call_no, tag_text, tag_lines,
             normalized_lines, first_tagged, second_tagged>>

corrVars == <<translated_text, original, replacement_map, corr_pc, detection,
              sentences, sorted_keys, key_no, segment_text, corrected>>

vars == <<chunkVars, cleanVars, tagVars, corrVars>>

----------------------------------------------------------------------------
(* Bounds of the model *)

MaxTextLen == 5         \* longest input text of the chunker, in code points
MaxChunkSize == 3       \* largest chunk_size tried (the smallest is -1)
MaxPieces == 5          \* most pieces a raw text of the cleaner is made of
MaxTagLen == 4          \* longest text handed to add_underscore
MaxReplaceLen == 3      \* longest text over "a", "b" handed to replace_text_segments
MaxKeys == 2            \* most items of a replacement map
MaxDetectLen == 3       \* longest text handed to detect_untranslated_chinese
MaxSentencePieces == 3  \* most pieces a text of extract_chinese_sentences is made of

----------------------------------------------------------------------------
(* Characters *)

NL == 10                \* "\n"
SP == 32                \* " "

\* str.isspace(), for the whitespace the inputs of the model can hold
IsSpace(c) == c \in {9, NL, 11, 12, 13, SP}

Min(a, b) == IF a < b THEN a ELSE b

\* All sequences over alphabet A of length <= n
SeqsUpTo(A, n) == UNION {[1..k -> A] : k \in 0..n}

\* s cut at the positions in breaks, the way str.splitlines() cuts at line
\* ends: the breaks are dropped, and a final break opens no empty last piece
SplitAt(s, breaks) ==
    LET NthBreak(j) == CHOOSE i \in breaks :
                          Cardinality({b \in breaks : b < i}) = j - 1
        count == Cardinality(breaks)
                 + (IF Len(s) > 0 /\ Len(s) \notin breaks THEN 1 ELSE 0)
    IN [j \in 1..count |->
          SubSeq(s,
                 IF j = 1 THEN 1 ELSE NthBreak(j - 1) + 1,
                 IF j <= Cardinality(breaks) THEN NthBreak(j) - 1 ELSE Len(s))]

\* str.splitlines(), for texts whose only line end is "\n"
SplitLines(s) == SplitAt(s, {i \in 1..Len(s) : s[i] = NL})

\* sub in s
Contains(s, sub) ==
    \E i \in 1..(Len(s) - Len(sub) + 1) : SubSeq(s, i, i + Len(sub) - 1) = sub

\* s.startswith(sub)
StartsWith(s, sub) == Len(sub) <= Len(s) /\ SubSeq(s, 1, Len(sub)) = sub

\* The texts made of at most n of the given pieces, one after another
RECURSIVE Concat(_)
Concat(parts) == IF parts = <<>> THEN <<>> ELSE Head(parts) \o Concat(Tail(parts))

TextsOfPieces(pieces, n) == {Concat(ps) : ps \in SeqsUpTo(pieces, n)}

\* str.strip(): drop leading and trailing whitespace
Strip(s) ==
    LET keep == {i \in 1..Len(s) : ~IsSpace(s[i])}
    IN IF keep = {} THEN <<>>
       ELSE LET lo == CHOOSE i \in keep : \A j \in keep : i <= j
                hi == CHOOSE i \in keep : \A j \in keep : j <= i
            IN SubSeq(s, lo, hi)

\* sep.join(parts)
RECURSIVE Join(_, _)
Join(parts, sep) ==
    IF parts = <<>> THEN <<>>
    ELSE IF Len(parts) = 1 THEN parts[1]
    ELSE parts[1] \o sep \o Join(Tail(parts), sep)

----------------------------------------------------------------------------
(* split_text_into_chunks *)

\* separator = "\n" if current_chunk else ""
Separator(current_chunk) == IF current_chunk # <<>> THEN <<NL>> ELSE <<>>

FitsNoSeparator(current_chunk, line, n) ==
    Len(current_chunk) + Len(line) <= n

\* len(current_chunk) + len(separator) + len(line) <= chunk_size
Fits(current_chunk, line, n) ==
    Len(current_chunk) + Len(Separator(current_chunk)) + Len(line) <= n

AppendLineNoSeparator(current_chunk, line) == current_chunk \o line

\* current_chunk += separator + line
AppendLine(current_chunk, line) ==
    current_chunk \o Separator(current_chunk) \o line

\* [line[i:i + n] for i in range(0, len(line), n)], n # 0; the range is empty
\* when n < 0
Slices(line, n) ==
    IF n < 0 THEN <<>>
    ELSE LET count == (Len(line) + n - 1) \div n
         IN [j \in 1..count |->
                SubSeq(line, (j - 1) * n + 1, Min(j * n, Len(line)))]

\* The loop over text.splitlines() and the return.  raised: range() refused a
\* zero step (ValueError), which leaves the function through the caller.
RECURSIVE ChunkLoop(_, _, _, _)
ChunkLoop(todo, n, done, current_chunk) ==
    IF todo = <<>>
    THEN [raised |-> FALSE,
          chunks |-> IF current_chunk # <<>> THEN Append(done, current_chunk)
                     ELSE done]
    ELSE LET line == Strip(Head(todo))
             rest == Tail(todo)
         IN IF line = <<>> THEN ChunkLoop(rest, n, done, current_chunk)
            ELSE IF Len(line) > n
            THEN IF n = 0
                 THEN [raised |-> TRUE, chunks |-> <<>>]
                 ELSE ChunkLoop(rest, n,
                        (IF current_chunk # <<>> THEN Append(done, current_chunk)
                         ELSE done) \o Slices(line, n),
                        <<>>)
            ELSE IF Fits(current_chunk, line, n)
            THEN ChunkLoop(rest, n, done, AppendLine(current_chunk, line))
            ELSE ChunkLoop(rest, n, Append(done, current_chunk), line)

split_text_into_chunks(t, n) == ChunkLoop(SplitLines(t), n, <<>>, <<>>)

----------------------------------------------------------------------------
(* translate_long_text, and a direct call of split_text_into_chunks *)

ChunkAlphabet == {97, 98, SP, NL}       \* "a", "b", " ", "\n"

NoResult == [returned |-> FALSE, value |-> <<>>]

\* translator.translate(chunk): the translation capability is external; it
\* answers with some string or raises.  Two possible answers per chunk.
TranslatorAnswers(chunk) == {<<84>> \o chunk, <<85>> \o chunk}

AppendTranslatedFront(done, translated) == <<translated>> \o done

\* translated_chunks.append(translated)
AppendTranslated(done, translated) == Append(done, translated)

InitChunk ==
    /\ text \in SeqsUpTo(ChunkAlphabet, MaxTextLen)
    /\ chunk_size \in (-1)..MaxChunkSize
    /\ pc = "start"
    /\ chunks = <<>>
    /\ translated_chunks = <<>>
    /\ submitted = <<>>
    /\ result = NoResult

\* split_text_into_chunks(text, chunk_size) called on its own, returning
CallSplitReturns ==
    /\ pc = "start"
    /\ ~split_text_into_chunks(text, chunk_size).raised
    /\ chunks' = split_text_into_chunks(text, chunk_size).chunks
    /\ pc' = "split_returned"
    /\ UNCHANGED <<cleanVars, tagVars, corrVars,
                 text, chunk_size, translated_chunks, submitted, result>>

\* split_text_into_chunks(text, chunk_size) called on its own, raising
CallSplitRaises ==
    /\ pc = "start"
    /\ split_text_into_chunks(text, chunk_size).raised
    /\ pc' = "split_raised"
    /\ UNCHANGED <<cleanVars, tagVars, corrVars,
                 text, chunk_size, chunks, translated_chunks, submitted, result>>

\* translate_long_text: chunks = split_text_into_chunks(text, chunk_size)
TranslateSplit ==
    /\ pc = "start"
    /\ ~split_text_into_chunks(text, chunk_size).raised
    /\ chunks' = split_text_into_chunks(text, chunk_size).chunks
    /\ pc' = "loop"
    /\ UNCHANGED <<cleanVars, tagVars, corrVars,
                 text, chunk_size, translated_chunks, submitted, result>>

\* translate_long_text: the ValueError of the split leaves through it
TranslateSplitRaises ==
    /\ pc = "start"
    /\ split_text_into_chunks(text, chunk_size).raised
    /\ pc' = "raised"
    /\ UNCHANGED <<cleanVars, tagVars, corrVars,
                 text, chunk_size, chunks, translated_chunks, submitted, result>>

\* for chunk in chunks: translator.translate(chunk) is called
Submit ==
    /\ pc = "loop"
    /\ Len(translated_chunks) < Len(chunks)
    /\ submitted' = Append(submitted, chunks[Len(translated_chunks) + 1])
    /\ pc' = "awaiting"
    /\ UNCHANGED <<cleanVars, tagVars, corrVars,
                 text, chunk_size, chunks, translated_chunks, result>>

\* the call returns; translated_chunks.append(translated)
TranslateReturns ==
    /\ pc = "awaiting"
    /\ \E translated \in TranslatorAnswers(submitted[Len(submitted)]) :
          translated_chunks' = AppendTranslated(translated_chunks, translated)
    /\ pc' = "loop"
    /\ UNCHANGED <<cleanVars, tagVars, corrVars,
                 text, chunk_size, chunks, submitted, result>>

\* the call raises; nothing catches it in translate_long_text
TranslateFails ==
    /\ pc = "awaiting"
    /\ pc' = "raised"
    /\ UNCHANGED <<cleanVars, tagVars, corrVars,
                 text, chunk_size, chunks, translated_chunks, submitted, result>>

\* return "\n".join(translated_chunks)
TranslateJoin ==
    /\ pc = "loop"
    /\ Len(translated_chunks) = Len(chunks)
    /\ result' = [returned |-> TRUE, value |-> Join(translated_chunks, <<NL>>)]
    /\ pc' = "returned"
    /\ UNCHANGED <<cleanVars, tagVars, corrVars,
                 text, chunk_size, chunks, translated_chunks, submitted>>

NextChunk ==
    \/ CallSplitReturns
    \/ CallSplitRaises
    \/ TranslateSplit
    \/ TranslateSplitRaises
    \/ Submit
    \/ TranslateReturns
    \/ TranslateFails
    \/ TranslateJoin

----------------------------------------------------------------------------
(* preprocess_downloaded_text *)

(* The function only ever deletes characters of its input, so the text it   *)
(* works on is kept as the sequence of the positions of raw that are still *)
(* present; CharsAt gives the characters.                                  *)

LT == 60                \* "<"
GT == 62                \* ">"

HttpsPrefix == <<104, 116, 116, 112, 115, 58, 47, 47>>      \* "https://"

\* IGNORE_PREFIX as the module ships it
IGNORE_PREFIX == <<HttpsPrefix>>

\* the artifact text.replace removes: fullwidth "&nbsp;"
NbspArtifact == <<65286, 65358, 65346, 65363, 65360, 65307>>

CharsAt(s, at) == [k \in 1..Len(at) |-> s[at[k]]]

\* re.sub(r'<[^>]+>', '', text): the positions that survive, scanning from i.
\* A match starts at a "<" and runs to the first ">" after it, which must not
\* be the very next character; "[^>]" takes line ends too.
RECURSIVE StripTagsFrom(_, _)
StripTagsFrom(s, i) ==
    IF i > Len(s) THEN <<>>
    ELSE LET closing == {j \in (i + 1)..Len(s) : s[j] = GT}
             close == IF closing = {} THEN 0
                      ELSE CHOOSE j \in closing : \A m \in closing : j <= m
         IN IF s[i] = LT /\ close > i + 1
            THEN StripTagsFrom(s, close + 1)
            ELSE <<i>> \o StripTagsFrom(s, i + 1)

\* text.replace(sub, ''): the positions that survive, scanning from k
RECURSIVE RemoveAllFrom(_, _, _, _)
RemoveAllFrom(s, at, sub, k) ==
    IF k > Len(at) THEN <<>>
    ELSE IF k + Len(sub) - 1 <= Len(at)
            /\ CharsAt(s, SubSeq(at, k, k + Len(sub) - 1)) = sub
    THEN RemoveAllFrom(s, at, sub, k + Len(sub))
    ELSE <<at[k]>> \o RemoveAllFrom(s, at, sub, k + 1)

\* the text after the two removals, cut into lines
CleanerLines(s) ==
    LET at == RemoveAllFrom(s, StripTagsFrom(s, 1), NbspArtifact, 1)
    IN SplitAt(at, {k \in 1..Len(at) : s[at[k]] = NL})

\* str.lower(), for the characters the inputs of the model can hold
Lower(s) == [k \in 1..Len(s) |-> IF s[k] \in 65..90 THEN s[k] + 32 ELSE s[k]]

HasPsCaseSensitive(line) == Contains(line, <<112, 115>>)

\* "ps" in line.lower()
HasPs(line) == Contains(Lower(line), <<112, 115>>)

\* any(prefix in line for prefix in IGNORE_PREFIX)
HasIgnoredPrefix(line, prefixes) ==
    \E k \in 1..Len(prefixes) : Contains(line, prefixes[k])

\* the three character classes of vietnamese_pattern
VietnameseChars ==
    (192..214) \cup (216..221) \cup (224..246) \cup (248..253) \cup {255}
    \cup {258, 259, 272, 273, 416, 417, 431, 432}

\* contains_vietnamese(line)
contains_vietnamese(line) == \E k \in 1..Len(line) : line[k] \in VietnameseChars

\* The pieces raw texts are made of: "P", "s", "\n", "<", ">", e-acute,
\* "https://", the nbsp artifact
CleanerPieces ==
    {<<80>>, <<115>>, <<NL>>, <<LT>>, <<GT>>, <<233>>, HttpsPrefix, NbspArtifact}

\* IGNORE_PREFIX is a module-level list, the configured ignored prefixes.
\* Under the list as shipped no line reaches the ignored-prefix test with a
\* prefix in it ("https://" contains "ps"), so the test is also run under a
\* second configuration, ["www."], with raw texts made of "s", "www.", "\n",
\* e-acute
WwwPrefix == <<119, 119, 119, 46>>

OtherPrefixPieces == {<<115>>, WwwPrefix, <<NL>>, <<233>>}

NotCleaned == [returned |-> FALSE, value |-> <<>>]

InitClean ==
    /\ \/ /\ ignore_prefix = IGNORE_PREFIX
          /\ raw \in TextsOfPieces(CleanerPieces, MaxPieces)
       \/ /\ ignore_prefix = <<WwwPrefix>>
          /\ raw \in TextsOfPieces(OtherPrefixPieces, MaxPieces)
    /\ clean_pc = "start"
    /\ lines = <<>>
    /\ line_no = 0
    /\ cleaned_lines = <<>>
    /\ cleaned = NotCleaned

\* tag and artifact removal, then text.splitlines()
CleanStrip ==
    /\ clean_pc = "start"
    /\ lines' = CleanerLines(raw)
    /\ line_no' = 1
    /\ clean_pc' = "loop"
    /\ UNCHANGED <<chunkVars, tagVars, corrVars,
                 raw, ignore_prefix, cleaned_lines, cleaned>>

CurrentLine == CharsAt(raw, lines[line_no])

\* return "\n".join(cleaned_lines)
JoinCleaned == [returned |-> TRUE,
                value |-> Join([k \in 1..Len(cleaned_lines) |->
                                   CharsAt(raw, cleaned_lines[k])], <<NL>>)]

\* if "ps" in line.lower(): break, and the return after the loop
StopAtPs ==
    /\ clean_pc = "loop"
    /\ line_no <= Len(lines)
    /\ HasPs(CurrentLine)
    /\ cleaned' = JoinCleaned
    /\ clean_pc' = "returned"
    /\ UNCHANGED <<chunkVars, tagVars, corrVars,
                 raw, ignore_prefix, lines, line_no, cleaned_lines>>

\* if any(prefix in line ...): continue
SkipIgnoredPrefix ==
    /\ clean_pc = "loop"
    /\ line_no <= Len(lines)
    /\ ~HasPs(CurrentLine)
    /\ HasIgnoredPrefix(CurrentLine, ignore_prefix)
    /\ line_no' = line_no + 1
    /\ UNCHANGED <<chunkVars, tagVars, corrVars,
                 raw, ignore_prefix, clean_pc, lines, cleaned_lines, cleaned>>

\* if contains_vietnamese(line): continue
SkipVietnamese ==
    /\ clean_pc = "loop"
    /\ line_no <= Len(lines)
    /\ ~HasPs(CurrentLine)
    /\ ~HasIgnoredPrefix(CurrentLine, ignore_prefix)
    /\ contains_vietnamese(CurrentLine)
    /\ line_no' = line_no + 1
    /\ UNCHANGED <<chunkVars, tagVars, corrVars,
                 raw, ignore_prefix, clean_pc, lines, cleaned_lines, cleaned>>

\* cleaned_lines.append(line)
KeepLine ==
    /\ clean_pc = "loop"
    /\ line_no <= Len(lines)
    /\ ~HasPs(CurrentLine)
    /\ ~HasIgnoredPrefix(CurrentLine, ignore_prefix)
    /\ ~contains_vietnamese(CurrentLine)
    /\ cleaned_lines' = Append(cleaned_lines, lines[line_no])
    /\ line_no' = line_no + 1
    /\ UNCHANGED <<chunkVars, tagVars, corrVars,
                 raw, ignore_prefix, clean_pc, lines, cleaned>>

\* the loop ran out of lines; return "\n".join(cleaned_lines)
ReturnAtEnd ==
    /\ clean_pc = "loop"
    /\ line_no > Len(lines)
    /\ cleaned' = JoinCleaned
    /\ clean_pc' = "returned"
    /\ UNCHANGED <<chunkVars, tagVars, corrVars,
                 raw, ignore_prefix, lines, line_no, cleaned_lines>>

NextClean ==
    \/ CleanStrip
    \/ StopAtPs
    \/ SkipIgnoredPrefix
    \/ SkipVietnamese
    \/ KeepLine
    \/ ReturnAtEnd

----------------------------------------------------------------------------
(* add_underscore and detect_underscore *)

US == 95                \* "_"

\* s cut at every position in breaks, the way str.split(sep) and re.split
\* cut: n breaks give n + 1 pieces, empty ones included
SplitEvery(s, breaks) ==
    LET NthBreak(j) == CHOOSE i \in breaks :
                          Cardinality({b \in breaks : b < i}) = j - 1
    IN [j \in 1..(Cardinality(breaks) + 1) |->
          SubSeq(s,
                 IF j = 1 THEN 1 ELSE NthBreak(j - 1) + 1,
                 IF j <= Cardinality(breaks) THEN NthBreak(j) - 1 ELSE Len(s))]

\* the target-script range [\u4e00-\u9fff]
CjkFirst == 19968
CjkLast == 40959

\* \w of a str pattern, for the characters the inputs of the model can hold
IsWordChar(c) ==
    c \in (48..57) \cup (65..90) \cup (97..122) \cup {US} \cup (CjkFirst..CjkLast)

\* underscore_pattern.search(line), the pattern being _\w+_
MatchesUnderscorePattern(line) ==
    \E i \in 1..Len(line) : \E j \in (i + 2)..Len(line) :
        /\ line[i] = US
        /\ line[j] = US
        /\ \A k \in (i + 1)..(j - 1) : IsWordChar(line[k])

\* detect_underscore(text)
detect_underscore(t) ==
    \E k \in 1..Len(SplitLines(t)) : MatchesUnderscorePattern(SplitLines(t)[k])

\* tokenize_chinese_text(line): jieba.cut is external.  It cuts the line into
\* consecutive non-empty tokens that together spell the line; where it cuts
\* is its choice, given here as the set of positions after which it cuts.
Tokens(line, cuts) ==
    LET NthCut(j) == CHOOSE i \in cuts : Cardinality({b \in cuts : b < i}) = j - 1
    IN IF line = <<>> THEN <<>>
       ELSE [j \in 1..(Cardinality(cuts) + 1) |->
               SubSeq(line,
                      IF j = 1 THEN 1 ELSE NthCut(j - 1) + 1,
                      IF j <= Cardinality(cuts) THEN NthCut(j) ELSE Len(line))]

\* '_'.join(line.split(" "))
TagBySpaces(line) ==
    Join(SplitEvery(line, {i \in 1..Len(line) : line[i] = SP}), <<US>>)

\* '_'.join(tokenize_chinese_text(line))
TagByTokens(line, cuts) == Join(Tokens(line, cuts), <<US>>)

TagAlphabet == {97, SP, NL, US}         \* "a", " ", "\n", "_"

InitTag ==
    /\ tag_input \in SeqsUpTo(TagAlphabet, MaxTagLen)
    /\ is_chinese \in BOOLEAN
    /\ tag_pc = "start"
    /\ call_no = 1
    /\ tag_text = tag_input
    /\ tag_lines = <<>>
    /\ normalized_lines = <<>>
    /\ first_tagged = <<>>
    /\ second_tagged = <<>>

\* What a call that returns value leaves behind: the first call's value is
\* handed to the second call
Returned(value) ==
    IF call_no = 1
    THEN /\ first_tagged' = value
         /\ tag_text' = value
         /\ call_no' = 2
         /\ tag_pc' = "start"
         /\ UNCHANGED second_tagged
    ELSE /\ second_tagged' = value
         /\ tag_pc' = "done"
         /\ UNCHANGED <<first_tagged, tag_text, call_no>>

\* if detect_underscore(text): return text
TagGuardReturns ==
    /\ tag_pc = "start"
    /\ detect_underscore(tag_text)
    /\ Returned(tag_text)
    /\ UNCHANGED <<chunkVars, cleanVars, corrVars,
                   tag_input, is_chinese, tag_lines, normalized_lines>>

\* lines = text.splitlines(); normalized_lines = []
TagSplitLines ==
    /\ tag_pc = "start"
    /\ ~detect_underscore(tag_text)
    /\ tag_lines' = SplitLines(tag_text)
    /\ normalized_lines' = <<>>
    /\ tag_pc' = "loop"
    /\ UNCHANGED <<chunkVars, cleanVars, corrVars,
                   tag_input, is_chinese, call_no, tag_text, first_tagged,
                   second_tagged>>

\* is_chinese: normalized_lines.append('_'.join(tokenize_chinese_text(line)))
TagLineByTokens ==
    /\ tag_pc = "loop"
    /\ Len(normalized_lines) < Len(tag_lines)
    /\ is_chinese
    /\ LET line == Strip(tag_lines[Len(normalized_lines) + 1])
       IN \E cuts \in SUBSET (1..(Len(line) - 1)) :
             normalized_lines' = Append(normalized_lines, TagByTokens(line, cuts))
    /\ UNCHANGED <<chunkVars, cleanVars, corrVars,
                   tag_input, is_chinese, tag_pc, call_no, tag_text, tag_lines,
                   first_tagged, second_tagged>>

\* else: normalized_lines.append('_'.join(line.split(" ")))
TagLineBySpaces ==
    /\ tag_pc = "loop"
    /\ Len(normalized_lines) < Len(tag_lines)
    /\ ~is_chinese
    /\ normalized_lines' =
          Append(normalized_lines,
                 TagBySpaces(Strip(tag_lines[Len(normalized_lines) + 1])))
    /\ UNCHANGED <<chunkVars, cleanVars, corrVars,
                   tag_input, is_chinese, tag_pc, call_no, tag_text, tag_lines,
                   first_tagged, second_tagged>>

\* return "\n".join(normalized_lines)
TagReturns ==
    /\ tag_pc = "loop"
    /\ Len(normalized_lines) = Len(tag_lines)
    /\ Returned(Join(normalized_lines, <<NL>>))
    /\ UNCHANGED <<chunkVars, cleanVars, corrVars,
                   tag_input, is_chinese, tag_lines, normalized_lines>>

NextTag ==
    \/ TagGuardReturns
    \/ TagSplitLines
    \/ TagLineByTokens
    \/ TagLineBySpaces
    \/ TagReturns

----------------------------------------------------------------------------
(* detect_untranslated_chinese, extract_chinese_sentences,                 *)
(* replace_text_segments                                                   *)

IsChineseFromSecond(c) == c \in (CjkFirst + 1)..CjkLast

\* a match of [\u4e00-\u9fff]
IsChinese(c) == c \in CjkFirst..CjkLast

\* detect_untranslated_chinese(text).  The ratio (a float in the code) is
\* kept as the exact fraction num / den.
detect_untranslated_chinese(t) ==
    LET chinese_chars == SelectSeq(t, IsChinese)
        total_chars == Len(t)
    IN [has |-> Len(chinese_chars) > 0,
        num |-> IF total_chars > 0 THEN Len(chinese_chars) * 100 ELSE 0,
        den |-> IF total_chars > 0 THEN total_chars ELSE 1]

IsAsciiSentenceEnd(c) == c \in {46, 33, 63, 44, 34}

\* the class [。！？.!?,"] of re.split
IsSentenceEnd(c) == c \in {12290, 65281, 65311, 46, 33, 63, 44, 34}

\* extract_chinese_sentences(text)
extract_chinese_sentences(t) ==
    LET parts == SplitEvery(t, {i \in 1..Len(t) : IsSentenceEnd(t[i])})
        stripped == [k \in 1..Len(parts) |-> Strip(parts[k])]
    IN SelectSeq(stripped,
                 LAMBDA sentence :
                    sentence # <<>> /\ \E k \in 1..Len(sentence) : IsChinese(sentence[k]))

\* text.replace(old, new) for a non-empty old: the occurrences found scanning
\* from the left, none overlapping another
RECURSIVE ReplaceFrom(_, _, _, _)
ReplaceFrom(s, old, new, k) ==
    IF k > Len(s) THEN <<>>
    ELSE IF k + Len(old) - 1 <= Len(s) /\ SubSeq(s, k, k + Len(old) - 1) = old
    THEN new \o ReplaceFrom(s, old, new, k + Len(old))
    ELSE <<s[k]>> \o ReplaceFrom(s, old, new, k + 1)

Replace(s, old, new) == ReplaceFrom(s, old, new, 1)

\* A dict is the sequence of its items in insertion order
MapKeys(map) == [k \in 1..Len(map) |-> map[k].key]

\* replacement_map.get(key)
MapGet(map, key) == map[CHOOSE k \in 1..Len(map) : map[k].key = key].value

SortedKeysShortestFirst(map) ==
    LET keys == MapKeys(map)
        Rank(i) == Cardinality({j \in 1..Len(keys) :
                                  \/ Len(keys[j]) < Len(keys[i])
                                  \/ Len(keys[j]) = Len(keys[i]) /\ j < i}) + 1
    IN [r \in 1..Len(keys) |-> keys[CHOOSE i \in 1..Len(keys) : Rank(i) = r]]

\* sorted(replacement_map.keys(), key=len, reverse=True): longest first, keys
\* of one length in insertion order (the sort is stable)
SortedKeys(map) ==
    LET keys == MapKeys(map)
        Rank(i) == Cardinality({j \in 1..Len(keys) :
                                  \/ Len(keys[j]) > Len(keys[i])
                                  \/ Len(keys[j]) = Len(keys[i]) /\ j < i}) + 1
    IN [r \in 1..Len(keys) |-> keys[CHOOSE i \in 1..Len(keys) : Rank(i) = r]]

\* The dicts of at most n items over the given keys and values
Maps(keys, values, n) ==
    {m \in SeqsUpTo([key : keys, value : values], n) :
        \A i, j \in 1..Len(m) : i # j => m[i].key # m[j].key}

\* Inputs: the texts and maps of the specification's scenario
ScenarioTranslated ==       \* "He said <ni hao> to her."
    <<72, 101, 32, 115, 97, 105, 100, 32, 20320, 22909, 32, 116, 111, 32,
      104, 101, 114, 46>>

ScenarioOriginal == <<20182, 35828, 20320, 22909, 12290>>   \* "<ta shuo ni hao>。"

ScenarioSentence == <<20182, 35828, 20320, 22909>>          \* "<ta shuo ni hao>"

HeSaidHello == <<72, 101, 32, 115, 97, 105, 100, 32, 104, 101, 108, 108, 111>>

ScenarioMap == <<[key |-> ScenarioSentence, value |-> HeSaidHello]>>

\* {"<ni hao>": "hello"}, a map whose key does occur in ScenarioTranslated
GreetingMap ==
    <<[key |-> <<20320, 22909>>, value |-> <<104, 101, 108, 108, 111>>]>>

\* Inputs of replace_text_segments: texts over "a", "b"; keys "a", "b", "ab",
\* "ba"; values "", "X", "Y", "a"
ReplaceAlphabet == {97, 98}

ReplaceKeys == {<<97>>, <<98>>, <<97, 98>>, <<98, 97>>}

ReplaceValues == {<<>>, <<88>>, <<89>>, <<97>>}

\* Inputs of detect_untranslated_chinese: the code points at and next to the
\* two ends of the range, and "a"
DetectAlphabet == {CjkFirst - 1, CjkFirst, CjkLast, CjkLast + 1, 97}

\* Inputs of extract_chinese_sentences: "<ta shuo>", "<ni hao>", "。", ",",
\* "!", " ", "a"
SentencePieces ==
    {<<20182, 35828>>, <<20320, 22909>>, <<12290>>, <<44>>, <<33>>, <<SP>>, <<97>>}

NoDetection == [has |-> FALSE, num |-> 0, den |-> 1]

NotCorrected == [returned |-> FALSE, value |-> <<>>]

InitCorr ==
    /\ \/ /\ translated_text \in
                SeqsUpTo(ReplaceAlphabet, MaxReplaceLen) \cup {ScenarioTranslated}
          /\ replacement_map \in
                Maps(ReplaceKeys, ReplaceValues, MaxKeys) \cup {ScenarioMap, GreetingMap}
          /\ original = ScenarioOriginal
       \/ /\ translated_text \in SeqsUpTo(DetectAlphabet, MaxDetectLen)
          /\ replacement_map = ScenarioMap
          /\ original = ScenarioOriginal
       \/ /\ translated_text = ScenarioTranslated
          /\ replacement_map = ScenarioMap
          /\ original \in TextsOfPieces(SentencePieces, MaxSentencePieces)
    /\ corr_pc = "start"
    /\ detection = NoDetection
    /\ sentences = <<>>
    /\ sorted_keys = <<>>
    /\ key_no = 0
    /\ segment_text = <<>>
    /\ corrected = NotCorrected

\* detect_untranslated_chinese(translated text)
Detect ==
    /\ corr_pc = "start"
    /\ detection' = detect_untranslated_chinese(translated_text)
    /\ corr_pc' = "extract"
    /\ UNCHANGED <<chunkVars, cleanVars, tagVars,
                   translated_text, original, replacement_map, sentences,
                   sorted_keys, key_no, segment_text, corrected>>

\* extract_chinese_sentences(original text)
Extract ==
    /\ corr_pc = "extract"
    /\ sentences' = extract_chinese_sentences(original)
    /\ corr_pc' = "replace"
    /\ UNCHANGED <<chunkVars, cleanVars, tagVars,
                   translated_text, original, replacement_map, detection,
                   sorted_keys, key_no, segment_text, corrected>>

\* replace_text_segments: if not text or not replacement_map: return text
ReplaceNothing ==
    /\ corr_pc = "replace"
    /\ translated_text = <<>> \/ replacement_map = <<>>
    /\ corrected' = [returned |-> TRUE, value |-> translated_text]
    /\ corr_pc' = "done"
    /\ UNCHANGED <<chunkVars, cleanVars, tagVars,
                   translated_text, original, replacement_map, detection,
                   sentences, sorted_keys, key_no, segment_text>>

\* sorted_keys = sorted(...)
ReplaceSortKeys ==
    /\ corr_pc = "replace"
    /\ translated_text # <<>> /\ replacement_map # <<>>
    /\ sorted_keys' = SortedKeys(replacement_map)
    /\ key_no' = 1
    /\ segment_text' = translated_text
    /\ corr_pc' = "keys"
    /\ UNCHANGED <<chunkVars, cleanVars, tagVars,
                   translated_text, original, replacement_map, detection,
                   sentences, corrected>>

\* if replacement: text = text.replace(original_segment, replacement)
ReplaceKey ==
    /\ corr_pc = "keys"
    /\ key_no <= Len(sorted_keys)
    /\ MapGet(replacement_map, sorted_keys[key_no]) # <<>>
    /\ segment_text' = Replace(segment_text, sorted_keys[key_no],
                               MapGet(replacement_map, sorted_keys[key_no]))
    /\ key_no' = key_no + 1
    /\ UNCHANGED <<chunkVars, cleanVars, tagVars,
                   translated_text, original, replacement_map, corr_pc,
                   detection, sentences, sorted_keys, corrected>>

\* an empty replacement: the key is passed over
SkipEmptyReplacement ==
    /\ corr_pc = "keys"
    /\ key_no <= Len(sorted_keys)
    /\ MapGet(replacement_map, sorted_keys[key_no]) = <<>>
    /\ key_no' = key_no + 1
    /\ UNCHANGED <<chunkVars, cleanVars, tagVars,
                   translated_text, original, replacement_map, corr_pc,
                   detection, sentences, sorted_keys, segment_text, corrected>>

\* return text
ReplaceReturns ==
    /\ corr_pc = "keys"
    /\ key_no > Len(sorted_keys)
    /\ corrected' = [returned |-> TRUE, value |-> segment_text]
    /\ corr_pc' = "done"
    /\ UNCHANGED <<chunkVars, cleanVars, tagVars,
                   translated_text, original, replacement_map, detection,
                   sentences, sorted_keys, key_no, segment_text>>

NextCorr ==
    \/ Detect
    \/ Extract
    \/ ReplaceNothing
    \/ ReplaceSortKeys
    \/ ReplaceKey
    \/ SkipEmptyReplacement
    \/ ReplaceReturns

----------------------------------------------------------------------------
(* The specifications: one per group of functions, the others idle *)

IdleChunk ==
    /\ text = <<>>
    /\ chunk_size = 1
    /\ pc = "idle"
    /\ chunks = <<>>
    /\ translated_chunks = <<>>
    /\ submitted = <<>>
    /\ result = NoResult

IdleClean ==
    /\ raw = <<>>
    /\ ignore_prefix = IGNORE_PREFIX
    /\ clean_pc = "idle"
    /\ lines = <<>>
    /\ line_no = 0
    /\ cleaned_lines = <<>>
    /\ cleaned = NotCleaned

IdleTag ==
    /\ tag_input = <<>>
    /\ is_chinese = FALSE
    /\ tag_pc = "idle"
    /\ call_no = 1
    /\ tag_text = <<>>
    /\ tag_lines = <<>>
    /\ normalized_lines = <<>>
    /\ first_tagged = <<>>
    /\ second_tagged = <<>>

IdleCorr ==
    /\ translated_text = <<>>
    /\ original = <<>>
    /\ replacement_map = <<>>
    /\ corr_pc = "idle"
    /\ detection = NoDetection
    /\ sentences = <<>>
    /\ sorted_keys = <<>>
    /\ key_no = 0
    /\ segment_text = <<>>
    /\ corrected = NotCorrected

\* split_text_into_chunks and translate_long_text
Init == InitChunk /\ IdleClean /\ IdleTag /\ IdleCorr

Next == NextChunk

Spec == Init /\ [][Next]_vars

\* preprocess_downloaded_text
InitCleaner == InitClean /\ IdleChunk /\ IdleTag /\ IdleCorr

SpecClean == InitCleaner /\ [][NextClean]_vars

\* add_underscore
InitTagger == InitTag /\ IdleChunk /\ IdleClean /\ IdleCorr

SpecTag == InitTagger /\ [][NextTag]_vars

\* detection, sentence extraction and substitution
InitCorrector == InitCorr /\ IdleChunk /\ IdleClean /\ IdleTag

SpecCorrect == InitCorrector /\ [][NextCorr]_vars


----------------------------------------------------------------------------
(* Claims about split_text_into_chunks and translate_long_text (Spec) *)

StrippedLines(t) == [i \in 1..Len(SplitLines(t)) |-> Strip(SplitLines(t)[i])]

NonBlankStrippedLines(t) == SelectSeq(StrippedLines(t), LAMBDA l : l # <<>>)

NoLineLongerThan(t, n) ==
    \A i \in 1..Len(StrippedLines(t)) : Len(StrippedLines(t)[i]) <= n

SplitHasReturned == pc \in {"split_returned", "loop", "awaiting", "returned"}

\* C1: with chunk_size >= 1 every chunk the split returns is non-empty and
\* no longer than chunk_size, buffer-built chunks and slices of an oversized
\* line alike.
C1_ChunkWithinSize ==
    (chunk_size >= 1 /\ SplitHasReturned) =>
        \A i \in 1..Len(chunks) :
            Len(chunks[i]) >= 1 /\ Len(chunks[i]) <= chunk_size

\* A returned split of a text holding a line longer than chunk_size and a
\* line that fits, with a chunk that fills chunk_size exactly.
C1_Witness ==
    /\ pc = "split_returned"
    /\ chunk_size >= 1
    /\ ~NoLineLongerThan(text, chunk_size)
    /\ \E i \in 1..Len(StrippedLines(text)) :
          Len(StrippedLines(text)[i]) \in 1..chunk_size
    /\ Len(chunks) >= 3
    /\ \E i \in 1..Len(chunks) : Len(chunks[i]) = chunk_size

\* C2: when no stripped line is longer than chunk_size, the chunks joined by
\* "\n" are exactly the stripped non-blank lines of the text joined by "\n":
\* no line lost, duplicated, split or reordered.
C2_ChunksRebuildLines ==
    (SplitHasReturned /\ NoLineLongerThan(text, chunk_size)) =>
        /\ Join(chunks, <<NL>>) = Join(NonBlankStrippedLines(text), <<NL>>)
        /\ SplitLines(Join(chunks, <<NL>>)) = NonBlankStrippedLines(text)

\* A returned split into several chunks, one of them holding two lines, of a
\* text that stripping and blank-line dropping changed.
C2_Witness ==
    /\ pc = "split_returned"
    /\ NoLineLongerThan(text, chunk_size)
    /\ Len(chunks) >= 2
    /\ \E i \in 1..Len(chunks) : \E j \in 1..Len(chunks[i]) : chunks[i][j] = NL
    /\ Len(NonBlankStrippedLines(text)) = 3

\* C7: a chunk_size <= 0 ends split_text_into_chunks and translate_long_text
\* in an error, for every text; no chunk list is returned.
C7_DegenerateChunkSizeRejected ==
    (chunk_size <= 0 /\ pc # "start") => pc \in {"split_raised", "raised"}

\* C9: chunks go to the translator one at a time in chunk order, each once;
\* the i-th translated chunk answers the i-th chunk; a result is returned
\* only after every chunk was answered and is their join; after a failure
\* nothing more happens and no result exists.
C9_TranslateInOrder ==
    /\ Len(submitted) <= Len(chunks)
    /\ submitted = SubSeq(chunks, 1, Len(submitted))
    /\ Len(submitted) = Len(translated_chunks) + (IF pc = "awaiting" THEN 1 ELSE 0)
       \/ (pc = "raised" /\ Len(submitted) = Len(translated_chunks) + 1)
    /\ \A i \in 1..Len(translated_chunks) :
          translated_chunks[i] \in TranslatorAnswers(chunks[i])
    /\ result.returned =>
          /\ pc = "returned"
          /\ Len(translated_chunks) = Len(chunks)
          /\ result.value = Join(translated_chunks, <<NL>>)
    /\ pc = "raised" => (~result.returned /\ ~ENABLED Next)

\* A run that translated at least two different chunks and returned.
C9_Witness ==
    /\ pc = "returned"
    /\ Len(chunks) >= 2
    /\ chunks[1] # chunks[2]
    /\ result.returned

----------------------------------------------------------------------------
(* Claims about preprocess_downloaded_text (SpecClean) *)

\* the lowercased line contains "ps"
ContainsPsIgnoringCase(line) ==
    \E k \in 1..(Len(line) - 1) : line[k] \in {80, 112} /\ line[k + 1] \in {83, 115}

\* The number of the first line of a sequence of lines that contains "ps",
\* one more than the number of lines when none does
FirstPsLine(ls) ==
    IF \E j \in 1..Len(ls) : ContainsPsIgnoringCase(ls[j])
    THEN CHOOSE j \in 1..Len(ls) :
            /\ ContainsPsIgnoringCase(ls[j])
            /\ \A m \in 1..(j - 1) : ~ContainsPsIgnoringCase(ls[m])
    ELSE Len(ls) + 1

\* The line of raw that position i lies on
RawLineOf(i) == Cardinality({j \in 1..(i - 1) : raw[j] = NL}) + 1

\* The lines of the text after tag and artifact removal, as characters
StrippedTextLines == [j \in 1..Len(CleanerLines(raw)) |-> CharsAt(raw, CleanerLines(raw)[j])]

\* a is b with some of its elements left out
RECURSIVE IsSubsequence(_, _)
IsSubsequence(a, b) ==
    IF a = <<>> THEN TRUE
    ELSE IF b = <<>> THEN FALSE
    ELSE IF Head(a) = Head(b) THEN IsSubsequence(Tail(a), Tail(b))
    ELSE IsSubsequence(a, Tail(b))

\* C5 as stated: when line k of the raw text is its first line containing
\* "ps" (any case), no character of the output comes from raw line k or a
\* later raw line.
C5_StopAtFirstRawPsLine ==
    (clean_pc = "returned" /\ FirstPsLine(SplitLines(raw)) <= Len(SplitLines(raw))) =>
        \A m \in 1..Len(cleaned_lines) : \A k \in 1..Len(cleaned_lines[m]) :
            RawLineOf(cleaned_lines[m][k]) < FirstPsLine(SplitLines(raw))

\* C5 amended: with k the first line containing "ps" (any case) of the text
\* left after tag and artifact removal, the output lines are lines of that
\* text numbered below k, in their order, and nothing else; no output line
\* contains "ps".
C5_StopAtFirstStrippedPsLine ==
    clean_pc = "returned" =>
        /\ IsSubsequence(cleaned_lines,
                         SubSeq(CleanerLines(raw), 1,
                                FirstPsLine(StrippedTextLines) - 1))
        /\ cleaned.value =
              Join([m \in 1..Len(cleaned_lines) |-> CharsAt(raw, cleaned_lines[m])],
                   <<NL>>)
        /\ \A m \in 1..Len(cleaned_lines) :
              ~ContainsPsIgnoringCase(CharsAt(raw, cleaned_lines[m]))

\* A return after a stop at a "ps" line that has a kept line before it and a
\* non-empty line after it.
C5_Witness ==
    /\ clean_pc = "returned"
    /\ FirstPsLine(StrippedTextLines) > 1
    /\ FirstPsLine(StrippedTextLines) < Len(StrippedTextLines)
    /\ StrippedTextLines[Len(StrippedTextLines)] # <<>>
    /\ Len(cleaned_lines) >= 1
    /\ cleaned.value # <<>>

StartsWithIgnoredPrefix(line) ==
    \E k \in 1..Len(ignore_prefix) : StartsWith(line, ignore_prefix[k])

ShippedPrefixRuleNeverFires ==
    [][ignore_prefix = IGNORE_PREFIX => ~SkipIgnoredPrefix]_vars

----------------------------------------------------------------------------
(* Claims about add_underscore (SpecTag) *)

\* C4: tagging what a first tagging returned returns it unchanged, in either
\* mode and whatever the segmenter does.
C4_TagIdempotent == tag_pc = "done" => second_tagged = first_tagged

----------------------------------------------------------------------------
(* Claims about detection, extraction and substitution (SpecCorrect) *)

IsProperSubstring(a, b) == Len(a) < Len(b) /\ Contains(b, a)

PositionIn(keys, key) == CHOOSE i \in 1..Len(keys) : keys[i] = key

KeysAreSorted == Len(sorted_keys) = Len(replacement_map) /\ sorted_keys # <<>>

\* The result the claim gives for a map of two keys, short inside long: the
\* long key's occurrences replaced by its value first, the short key's next
LongThenShort(long, short) ==
    LET first == Replace(translated_text, long.key, long.value)
    IN IF short.value = <<>> THEN first
       ELSE Replace(first, short.key, short.value)

InScenario ==
    /\ corr_pc = "done"
    /\ translated_text = ScenarioTranslated
    /\ original = ScenarioOriginal
    /\ replacement_map = ScenarioMap

\* C6 as stated: in the scenario the detector reports residual content with
\* a ratio above 0, the extraction gives the one sentence, and the
\* substitution gives "He said He said hello to her.".
C6_ScenarioGivesDoubledText ==
    InScenario =>
        /\ detection.has /\ detection.num > 0
        /\ sentences = <<ScenarioSentence>>
        /\ corrected.value =
              <<72, 101, 32, 115, 97, 105, 100, 32, 72, 101, 32, 115, 97, 105,
                100, 32, 104, 101, 108, 108, 111, 32, 116, 111, 32, 104, 101,
                114, 46>>

\* C6 amended: in the scenario the detector reports residual content with a
\* ratio above 0, the extraction gives the one sentence, and the substitution
\* returns the translated text unchanged: the map's key does not occur in it.
C6_ScenarioLeavesTextUnchanged ==
    InScenario =>
        /\ detection.has /\ detection.num > 0
        /\ sentences = <<ScenarioSentence>>
        /\ ~Contains(translated_text, ScenarioSentence)
        /\ corrected.returned
        /\ corrected.value = ScenarioTranslated

\* The scenario, run to its end.
C6_Witness == InScenario /\ corrected.returned /\ detection.has

\* C8: hasResidual is true exactly when the text holds a character in
\* U+4E00..U+9FFF; the ratio is 100 * (such characters) / (characters), 0 for
\* the empty text, so it lies in [0, 100], and is 100 for a text of such
\* characters only.
C8_DetectionRatio ==
    corr_pc # "start" =>
        LET inRange == {i \in 1..Len(translated_text) :
                          translated_text[i] >= 19968 /\ translated_text[i] <= 40959}
            total == Len(translated_text)
        IN /\ detection.has = (inRange # {})
           /\ detection.den > 0
           /\ total = 0 => (detection.num = 0 /\ ~detection.has)
           /\ total > 0 =>
                 detection.num * total = 100 * Cardinality(inRange) * detection.den
           /\ 0 <= detection.num /\ detection.num <= 100 * detection.den
           /\ (total > 0 /\ Cardinality(inRange) = total) =>
                 (detection.has /\ detection.num = 100 * detection.den)

\* A detection over U+4E00, U+9FFF and one character just outside the range.
C8_Witness ==
    /\ corr_pc = "done"
    /\ Len(translated_text) = 3
    /\ \E i, j, k \in 1..3 :
          /\ translated_text[i] = 19968
          /\ translated_text[j] = 40959
          /\ translated_text[k] \in {19967, 40960}
    /\ detection.has
    /\ detection.num * 3 = 200 * detection.den

====
